---- MODULE Spec2Model ----
(***************************************************************************)
(* A model of the Ansible module library/packer.py (class Packer).         *)
(*                                                                         *)
(* Spec       one or more invocations of main(): Packer.run, check_packages*)
(*            and install_packages against a package database.  Every      *)
(*            mutating subprocess (packer -Syu, packer -S <name>) is one    *)
(*            step whose exit code is an input.                             *)
(* SpecLogin  Packer.login_name over every environment of a small set.     *)
(* SpecParse  the text processing of Packer.package_info over every        *)
(*            stdout of a small alphabet.                                   *)
(***************************************************************************)
EXTENDS Integers, Sequences, FiniteSets, TLC

VARIABLES
    name,             \* module.params['name'] (None is read as [], line 132)
    state,            \* module.params['state']
    upgrade,          \* module.params['upgrade']
    check_mode,       \* module.check_mode
    installed,        \* local package database: name -> version or None
    remote,           \* AUR: name -> version or None
    pc,               \* position of the invocation
    would_change,     \* the three buckets of check_packages
    already_present,
    not_found,
    cmds,             \* subprocesses started by this invocation, in order
    total_installed,  \* install_packages' counter
    login,            \* the host as install_packages reads it
    result,           \* what exit_json / fail_json was called with
    runs,             \* invocations completed before this one
    prev,             \* result of the previous invocation
    env,              \* SpecLogin: the environment login_name reads
    login_result,     \* SpecLogin: what login_name returned
    stdout,           \* SpecParse: stdout of packer -Si, as lines
    parsed            \* SpecParse: what the parsing produced

vars == << name, state, upgrade, check_mode, installed, remote, pc,
           would_change, already_present, not_found, cmds, total_installed,
           login, result, runs, prev, env, login_result, stdout, parsed >>

runVars   == << name, state, upgrade, check_mode, installed, remote, pc,
                would_change, already_present, not_found, cmds,
                total_installed, login, result, runs, prev >>
loginVars == << env, login_result >>
parseVars == << stdout, parsed >>

(***************************************************************************)
(* Bounds of the model.                                                    *)
(***************************************************************************)
MaxPkgs == 3          \* longest request list
MaxRuns == 1          \* re-invocations after the first one
MaxLines == 2         \* lines of stdout given to the parser
MaxLineLen == 3       \* characters per line of stdout

None == "None"        \* Python's None; '%s' % None is 'None'

Names == {"foo", "aura"}
Versions == {"1.0", "2.0"}
RemoteVersions == {"2.0"}
States == {"present", "installed", "latest"}

RECURSIVE SeqsUpTo(_, _)
SeqsUpTo(S, n) ==
    IF n = 0 THEN {<< >>}
    ELSE LET shorter == SeqsUpTo(S, n - 1)
         IN  shorter \cup {Append(s, x) : s \in shorter, x \in S}

Range(s) == {s[k] : k \in 1..Len(s)}

(***************************************************************************)
(* Text helpers.                                                           *)
(***************************************************************************)
\* ', '.join(names) and '; '.join(clauses)
RECURSIVE Join(_, _)
Join(sep, s) ==
    IF s = << >> THEN ""
    ELSE IF Len(s) = 1 THEN s[1]
    ELSE s[1] \o sep \o Join(sep, Tail(s))


\* decimal rendering of a small count ('%s' % total_installed)
Str(n) == ToString(n)

IsSpace(c) == c \in {" ", "\t"}

\* str.strip() on a string held as a sequence of characters
RECURSIVE LStrip(_)
LStrip(s) == IF s # << >> /\ IsSpace(Head(s)) THEN LStrip(Tail(s)) ELSE s

RECURSIVE RStrip(_)
RStrip(s) ==
    IF s # << >> /\ IsSpace(s[Len(s)]) THEN RStrip(SubSeq(s, 1, Len(s) - 1))
    ELSE s

Strip(s) == RStrip(LStrip(s))

\* a string held as a sequence of characters, as one string
RECURSIVE Flat(_)
Flat(s) == IF s = << >> THEN "" ELSE Head(s) \o Flat(Tail(s))

(***************************************************************************)
(* Packer.login_name.  User names are sequences of characters; Nil is      *)
(* Python's None among them and OSError the exception of os.getlogin().    *)
(***************************************************************************)
Nil == << "None" >>
OSError == << "OSError" >>
Root == << "r", "o", "o", "t" >>
Bob == << "b", "o", "b" >>
Al == << "a", "l" >>

\* the environment: os.getlogin(), get_bin_path('logname'), the exit code
\* and the lines of stdout of logname, os.environ's LOGNAME and SUDO_USER
LoginEnvs ==
    [ getlogin       : {OSError, Root, Bob},
      logname_path   : {None, "/usr/bin/logname"},
      logname_rc     : {0, 1},
      logname_stdout : { << >>, << << >> >>, << Bob >>,
                         << << " " >> \o Root \o << " " >>, Bob >> },
      LOGNAME        : {Nil, << >>, Root, Bob},
      SUDO_USER      : {Nil, Root, Al} ]

\* lines 217-223: the logname command
LognameResult(e) ==
    IF /\ e.logname_path # None
       /\ e.logname_rc = 0
       /\ e.logname_stdout # << >>
    THEN Strip(e.logname_stdout[1])
    ELSE Nil

\* lines 225-226
LognameEnvResult(e) ==
    IF LognameResult(e) = Nil THEN e.LOGNAME ELSE LognameResult(e)

\* lines 228-229: os.environ.get('SUDO_USER', login_name)
SudoUserResult(e, sofar) ==
    IF sofar = Nil \/ sofar = Root
    THEN (IF e.SUDO_USER # Nil THEN e.SUDO_USER ELSE sofar)
    ELSE sofar

\* login_name with the fallbacks applied to the result of os.getlogin() too
login_name_always_falls_back(e) ==
    SudoUserResult(e, IF e.getlogin # OSError THEN e.getlogin
                      ELSE LognameEnvResult(e))

\* the fallbacks run in the except branch only
login_name(e) ==
    IF e.getlogin # OSError THEN e.getlogin
    ELSE SudoUserResult(e, LognameEnvResult(e))

LoginResults == {login_name(e) : e \in LoginEnvs}

NoEnv == [ getlogin |-> OSError, logname_path |-> None, logname_rc |-> 1,
           logname_stdout |-> << >>, LOGNAME |-> Nil, SUDO_USER |-> Nil ]
Unset == << "unset" >>

\* install_packages has not read the host yet
NotRead == [read |-> FALSE, name |-> None, switched_user |-> FALSE,
            sudo_path |-> None]

\* the variables of a specification that is not running
IdleRun ==
    /\ name = << >> /\ state = "present" /\ upgrade = FALSE
    /\ check_mode = FALSE
    /\ installed = [n \in Names |-> None] /\ remote = [n \in Names |-> None]
    /\ pc = "idle"
    /\ would_change = << >> /\ already_present = << >> /\ not_found = << >>
    /\ cmds = << >> /\ total_installed = 0
    /\ login = NotRead
    /\ result = [kind |-> "none", changed |-> FALSE, msg |-> ""]
    /\ runs = 0
    /\ prev = [kind |-> "none", changed |-> FALSE, msg |-> ""]
IdleLogin == env = NoEnv /\ login_result = Unset
IdleParse == stdout = << >> /\ parsed = [status |-> "idle"]

InitLogin ==
    /\ env \in LoginEnvs
    /\ login_result = Unset
    /\ IdleRun /\ IdleParse

\* one call of login_name in the environment env
LoginName ==
    /\ login_result = Unset
    /\ login_result' = login_name(env)
    /\ UNCHANGED << env, runVars, parseVars >>

NextLogin == LoginName

SpecLogin == InitLogin /\ [][NextLogin]_vars


(***************************************************************************)
(* Packer.run, check_packages and install_packages.                        *)
(***************************************************************************)
normalized_state(st) ==
    IF st \in {"present", "installed"} THEN "present"
    ELSE IF st \in {"latest"} THEN "latest"
    ELSE None

\* The body compares the bound method normalized_state with 'latest' and
\* drops the result: the call returns None, which is false, for every state.
should_update(st) == FALSE

should_upgrade(up) == up

\* expac -Q '%v' <name>: a non-zero exit is None
package_installed_version(inst, n) == inst[n]

\* None where a mapping is expected
NoInfo == [none |-> TRUE]

\* packer -Si --auronly <name>: a non-zero exit is None, else the metadata
package_info(rem, n) ==
    IF rem[n] = None THEN NoInfo ELSE [version |-> rem[n]]

Query(op, n, found) == [op |-> op, name |-> n, rc |-> IF found THEN 0 ELSE 1]

\* Bucket with the test of the installed version inverted
BucketInverted(su, inst, rem, n) ==
    IF package_info(rem, n) = NoInfo THEN "not_found"
    ELSE IF package_installed_version(inst, n) # None
    THEN "would_change" ELSE "already_present"

\* the bucket of one name, lines 241-258
Bucket(su, inst, rem, n) ==
    IF package_info(rem, n) = NoInfo THEN "not_found"
    ELSE IF su
    THEN (IF \/ package_installed_version(inst, n) = None
             \/ package_installed_version(inst, n) # package_info(rem, n).version
          THEN "would_change" ELSE "already_present")
    ELSE (IF package_installed_version(inst, n) = None
          THEN "would_change" ELSE "already_present")

\* the subprocesses one iteration starts
BucketQueries(inst, rem, n) ==
    IF package_info(rem, n) = NoInfo
    THEN << Query("-Si", n, FALSE) >>
    ELSE << Query("-Si", n, TRUE), Query("-Q", n, inst[n] # None) >>

NoBuckets ==
    [would_change |-> << >>, already_present |-> << >>, not_found |-> << >>,
     cmds |-> << >>]

\* the loop of check_packages over pkgs, from the buckets acc
RECURSIVE CheckLoop(_, _, _, _, _)
CheckLoop(pkgs, su, inst, rem, acc) ==
    IF pkgs = << >> THEN acc
    ELSE LET n == Head(pkgs)
             b == Bucket(su, inst, rem, n)
         IN  CheckLoop(Tail(pkgs), su, inst, rem,
                       [acc EXCEPT ![b] = Append(@, n),
                                   !.cmds = @ \o BucketQueries(inst, rem, n)])

\* check_packages leaving its loop at the first name that is not found
RECURSIVE CheckLoopBreak(_, _, _, _, _)
CheckLoopBreak(pkgs, su, inst, rem, acc) ==
    IF pkgs = << >> THEN acc
    ELSE LET n == Head(pkgs)
             b == Bucket(su, inst, rem, n)
             next == [acc EXCEPT ![b] = Append(@, n),
                                 !.cmds = @ \o BucketQueries(inst, rem, n)]
         IN  IF b = "not_found" THEN next
             ELSE CheckLoopBreak(Tail(pkgs), su, inst, rem, next)

check_packages_break(pkgs, su, inst, rem) ==
    CheckLoopBreak(pkgs, su, inst, rem, NoBuckets)

check_packages(pkgs, su, inst, rem) == CheckLoop(pkgs, su, inst, rem, NoBuckets)

\* lines 142-153
would_update_msg(wu, ns) ==
    IF Len(wu) >= 1 THEN "would update " \o Join(", ", wu)
    ELSE "all packages already " \o ns
already_present_msg(ap, ns) ==
    IF Len(ap) >= 1 THEN Join(", ", ap) \o " already " \o ns ELSE None
not_found_msg(nf) ==
    IF Len(nf) >= 1 THEN "could not find " \o Join(", ", nf) ELSE None

\* line 156
msg_e(wu, ap, nf, ns) ==
    SelectSeq(<< would_update_msg(wu, ns), already_present_msg(ap, ns),
                 not_found_msg(nf) >>,
              LAMBDA m : m # None)

\* Branch without the test of check_mode
BranchNoCheckMode(cm, failed, changed, up) ==
    IF failed THEN "fail"
    ELSE IF ~changed /\ ~should_upgrade(up) THEN "unchanged"
    ELSE "install"

\* Branch with failed tested before check_mode
BranchFailedFirst(cm, failed, changed, up) ==
    IF failed THEN "fail"
    ELSE IF cm THEN "check"
    ELSE IF ~changed /\ ~should_upgrade(up) THEN "unchanged"
    ELSE "install"

\* Branch without the test of failed
BranchNoFailed(cm, failed, changed, up) ==
    IF cm THEN "check"
    ELSE IF ~changed /\ ~should_upgrade(up) THEN "unchanged"
    ELSE "install"

\* the branch run takes, lines 155-163
Branch(cm, failed, changed, up) ==
    IF cm THEN "check"
    ELSE IF failed THEN "fail"
    ELSE IF ~changed /\ ~should_upgrade(up) THEN "unchanged"
    ELSE "install"

exit_json(changed, msg) == [kind |-> "exit_json", changed |-> changed, msg |-> msg]
\* fail_json is given no 'changed'
fail_json(msg) == [kind |-> "fail_json", changed |-> FALSE, msg |-> msg]
NoResult == [kind |-> "none", changed |-> FALSE, msg |-> ""]

Init ==
    /\ name \in SeqsUpTo(Names, MaxPkgs)
    /\ state \in States
    /\ upgrade \in BOOLEAN
    /\ check_mode \in BOOLEAN
    /\ installed \in [Names -> Versions \cup {None}]
    /\ remote \in [Names -> RemoteVersions \cup {None}]
    /\ pc = "run"
    /\ would_change = << >> /\ already_present = << >> /\ not_found = << >>
    /\ cmds = << >>
    /\ total_installed = 0
    /\ login = NotRead
    /\ result = NoResult
    /\ runs = 0
    /\ prev = NoResult
    /\ IdleLogin /\ IdleParse

\* Packer.run: classification, the messages and the branch taken
Run ==
    /\ pc = "run"
    /\ LET ns == normalized_state(state)
           b == check_packages(name, should_update(state), installed, remote)
           changed == Len(b.would_change) >= 1
           failed == Len(b.not_found) >= 1
           br == Branch(check_mode, failed, changed, upgrade)
       IN  /\ would_change' = b.would_change
           /\ already_present' = b.already_present
           /\ not_found' = b.not_found
           /\ cmds' = b.cmds
           /\ result' =
                CASE br = "check" ->
                       exit_json(changed,
                                 Join("; ", msg_e(b.would_change, b.already_present,
                                                  b.not_found, ns)))
                  [] br = "fail" -> fail_json(not_found_msg(b.not_found))
                  [] br = "unchanged" ->
                       exit_json(changed, would_update_msg(b.would_change, ns))
                  [] OTHER -> NoResult
           /\ pc' = IF br = "install" THEN "install_packages" ELSE "done"
    /\ UNCHANGED << name, state, upgrade, check_mode, installed, remote,
                    total_installed, login, runs, prev, loginVars, parseVars >>

Users == {Root, Bob}
SudoPaths == {None, "/usr/bin/sudo"}

\* install_packages up to its first subprocess, lines 262-284.  The login
\* name, the user of the process and the place of sudo are read from the
\* host by the first invocation that gets here and are the same for the
\* invocations after it.
InstallStart ==
    /\ pc = "install_packages"
    /\ \E ln \in LoginResults, user \in Users, sudo_path \in SudoPaths :
         LET host == IF login.read THEN login
                     ELSE [read |-> TRUE, name |-> Flat(ln),
                           switched_user |-> (user # ln),
                           sudo_path |-> sudo_path]
         IN  /\ login' = host
             /\ IF host.switched_user /\ host.sudo_path = None
                THEN /\ result' = fail_json("unable to locate sudo executable")
                     /\ pc' = "done"
                ELSE /\ result' = result
                     /\ pc' = IF should_upgrade(upgrade) THEN "upgrade" ELSE "install"
    /\ total_installed' = 0
    /\ UNCHANGED << name, state, upgrade, check_mode, installed, remote,
                    would_change, already_present, not_found, cmds, runs, prev,
                    loginVars, parseVars >>

ExitCodes == {0, 1}
Stderr(rc) == IF rc = 0 THEN "" ELSE "error"

\* what a successful packer -Syu leaves in the package database
Upgraded(inst, rem) ==
    [n \in Names |-> IF inst[n] # None /\ rem[n] # None THEN rem[n] ELSE inst[n]]

\* what a successful packer -S <name> leaves in the package database
Installed(inst, rem, n) == [inst EXCEPT ![n] = rem[n]]

\* the exit code of packer -Syu not looked at
UpgradeNeverFailed(rc) == FALSE

UpgradeFailed(rc) == rc # 0

\* the bulk upgrade, lines 286-294
BulkUpgrade ==
    /\ pc = "upgrade"
    /\ \E rc \in ExitCodes :
         /\ cmds' = Append(cmds, [op |-> "-Syu", name |-> None, rc |-> rc])
         /\ IF UpgradeFailed(rc)
            THEN /\ result' = fail_json("failed to upgrade packages: " \o Stderr(rc))
                 /\ pc' = "done"
                 /\ installed' = installed
            ELSE /\ installed' = Upgraded(installed, remote)
                 /\ IF Len(would_change) < 1
                    THEN /\ result' = exit_json(TRUE, "upgraded AUR packages")
                         /\ pc' = "done"
                    ELSE /\ result' = result
                         /\ pc' = "install"
    /\ UNCHANGED << name, state, upgrade, check_mode, remote, would_change,
                    already_present, not_found, total_installed, login, runs,
                    prev, loginVars, parseVars >>

\* the exit code of packer -S not looked at
InstallNeverFailed(rc) == FALSE

InstallFailed(rc) == rc # 0

install_failure_msg(n, rc, lg) ==
    "failed to install package " \o n \o ": " \o Stderr(rc)
      \o (IF ~lg.switched_user
          THEN " (do you have passwordless sudo as user " \o lg.name \o "?)"
          ELSE "")

\* one iteration of the install loop, lines 299-311
InstallOne ==
    /\ pc = "install"
    /\ total_installed < Len(would_change)
    /\ LET n == would_change[total_installed + 1]
       IN  \E rc \in ExitCodes :
             /\ cmds' = Append(cmds, [op |-> "-S", name |-> n, rc |-> rc])
             /\ IF InstallFailed(rc)
                THEN /\ result' = fail_json(install_failure_msg(n, rc, login))
                     /\ pc' = "done"
                     /\ UNCHANGED << installed, total_installed >>
                ELSE /\ installed' = Installed(installed, remote, n)
                     /\ total_installed' = total_installed + 1
                     /\ UNCHANGED << result, pc >>
    /\ UNCHANGED << name, state, upgrade, check_mode, remote, would_change,
                    already_present, not_found, login, runs, prev,
                    loginVars, parseVars >>

\* after the loop, lines 313-315
InstallFinish ==
    /\ pc = "install"
    /\ total_installed = Len(would_change)
    /\ result' = exit_json(total_installed >= 1,
                           "installed " \o Str(total_installed) \o " package(s)")
    /\ pc' = "done"
    /\ UNCHANGED << name, state, upgrade, check_mode, installed, remote,
                    would_change, already_present, not_found, cmds,
                    total_installed, login, runs, prev, loginVars, parseVars >>

\* main() again with the same parameters on the same host
Reinvoke ==
    /\ pc = "done"
    /\ runs < MaxRuns
    /\ runs' = runs + 1
    /\ prev' = result
    /\ pc' = "run"
    /\ would_change' = << >> /\ already_present' = << >> /\ not_found' = << >>
    /\ cmds' = << >>
    /\ total_installed' = 0
    /\ result' = NoResult
    /\ UNCHANGED << name, state, upgrade, check_mode, installed, remote, login,
                    loginVars, parseVars >>

Next ==
    \/ Run
    \/ InstallStart
    \/ BulkUpgrade
    \/ InstallOne
    \/ InstallFinish
    \/ Reinvoke

Spec == Init /\ [][Next]_vars


(***************************************************************************)
(* Packer.package_info: the parsing of the stdout of packer -Si.  A line   *)
(* is a sequence of characters, stdout the sequence stdout.splitlines().   *)
(***************************************************************************)
Chars == {"K", " ", ":"}
Lines == SeqsUpTo(Chars, MaxLineLen)

\* re.match('^\s', line)
StartsWithSpace(line) == line # << >> /\ IsSpace(line[1])

\* lines 197-205: continuation lines are joined to the record before them
RECURSIVE Accumulate(_, _)
Accumulate(lines, line_acc) ==
    IF lines = << >> THEN line_acc
    ELSE LET line == Head(lines)
         IN  Accumulate(Tail(lines),
                IF StartsWithSpace(line) /\ line_acc # << >>
                THEN [line_acc EXCEPT ![Len(line_acc)] = @ \o << " " >> \o Strip(line)]
                ELSE Append(line_acc, Strip(line)))

\* the places where \s+: can end group 1: a space with a colon right after
\* it is the last such place of every run of spaces before a colon
GreedyCuts(line) ==
    {p \in 1..(Len(line) - 1) : IsSpace(line[p]) /\ line[p + 1] = ":"}

Max(S) == CHOOSE x \in S : \A y \in S : y <= x
Min(S) == CHOOSE x \in S : \A y \in S : x <= y

\* group 1 of ^(.*)\s+:\s*(.*) is greedy: it ends at the last such place
CutAt(line) == Max(GreedyCuts(line))

Matches(line) == GreedyCuts(line) # {}

\* re.findall(split_on_colons, line)[0], for a line that matches
Groups(line) ==
    LET p == CutAt(line)
    IN  << SubSeq(line, 1, p - 1), LStrip(SubSeq(line, p + 2, Len(line))) >>

Lower(c) == IF c = "K" THEN "k" ELSE c

\* re.sub(r'\s+', '_', k)
RECURSIVE Underscore(_)
Underscore(k) ==
    IF k = << >> THEN << >>
    ELSE IF IsSpace(Head(k)) THEN << "_" >> \o Underscore(LStrip(k))
    ELSE << Head(k) >> \o Underscore(Tail(k))

NormalKey(k) == LET u == Underscore(Strip(k)) IN [j \in 1..Len(u) |-> Lower(u[j])]

\* line 208: the records that are not blank
Records(line_acc) == SelectSeq(line_acc, LAMBDA line : line # << >>)

\* line 209: the (key, value) pairs, before dict() keeps the last of each key
Pairs(records) ==
    [j \in 1..Len(records) |->
        << NormalKey(Groups(records[j])[1]), Strip(Groups(records[j])[2]) >>]

\* dict(pairs): a later pair replaces an earlier one of the same key
Dict(pairs) ==
    [k \in {pairs[j][1] : j \in 1..Len(pairs)} |->
        pairs[Max({j \in 1..Len(pairs) : pairs[j][1] = k})][2]]

\* what package_info returns, or the exception that leaves it
Parse(rc, out) ==
    IF rc # 0 THEN [status |-> "None"]
    ELSE LET line_acc == Accumulate(out, << >>)
             records == Records(line_acc)
         IN  IF \E j \in 1..Len(records) : ~Matches(records[j])
             THEN [status |-> "IndexError", line_acc |-> line_acc]
             ELSE [status |-> "ok", line_acc |-> line_acc,
                   kv_pairs |-> Pairs(records), info |-> Dict(Pairs(records))]

InitParse ==
    /\ stdout \in SeqsUpTo(Lines, MaxLines)
    /\ parsed = [status |-> "idle"]
    /\ IdleRun /\ IdleLogin

\* one call of package_info on the output stdout
PackageInfo ==
    /\ parsed.status = "idle"
    /\ \E rc \in ExitCodes : parsed' = Parse(rc, stdout)
    /\ UNCHANGED << stdout, runVars, loginVars >>

NextParse == PackageInfo

SpecParse == InitParse /\ [][NextParse]_vars


(***************************************************************************)
(* Properties.                                                             *)
(***************************************************************************)
Mutating(c) == c.op \in {"-Syu", "-S"}
MutatingCmds == SelectSeq(cmds, Mutating)
Installs == SelectSeq(cmds, LAMBDA c : c.op = "-S")
Upgrades == SelectSeq(cmds, LAMBDA c : c.op = "-Syu")
Classified == pc \notin {"run", "idle"}
HasRemote(n) == remote[n] # None
\* the requested names of a bucket, in request order
Requested(bucket) == SelectSeq(name, LAMBDA n : n \in Range(bucket))

\* C1: with state latest a requested name that has remote metadata is in
\* needs_change when it is not installed or its installed version differs
\* from the remote version, and in already_satisfied only when it is
\* installed at the remote version; every name in already_satisfied is
\* installed and (state is present, or state is latest and the installed
\* version equals the remote version).  Read right after classification,
\* before any subprocess has changed the package database.
C1_AlreadySatisfiedIsUpToDate ==
    (Classified /\ MutatingCmds = << >>) =>
        /\ \A n \in Range(already_present) :
             /\ installed[n] # None
             /\ \/ normalized_state(state) = "present"
                \/ /\ normalized_state(state) = "latest"
                   /\ installed[n] = remote[n]
        /\ normalized_state(state) = "latest" =>
             \A n \in Range(name) :
                 (HasRemote(n) /\ installed[n] # remote[n])
                     => n \in Range(would_change)

\* C2: in check mode no mutating subprocess (packer -Syu, packer -S) is ever
\* started, only the queries run, and the result reports changed exactly
\* when the needs_change bucket is not empty.
C2_DryRunStartsNoMutation ==
    check_mode =>
        /\ \A j \in 1..Len(cmds) : cmds[j].op \in {"-Si", "-Q"}
        /\ pc \in {"run", "done"}
        /\ pc = "done" =>
             /\ result.kind = "exit_json"
             /\ result.changed = (would_change # << >>)

C2_Witness ==
    /\ check_mode /\ upgrade /\ pc = "done"
    /\ would_change # << >> /\ already_present # << >>
    /\ result.changed

\* C3 as claimed: in check mode a non-empty not_found bucket ends the run
\* with a failure whose message is 'could not find {names}'.
C3_DryRunNotFoundIsFatal ==
    (check_mode /\ pc = "done" /\ not_found # << >>) =>
        result = fail_json("could not find " \o Join(", ", not_found))

\* C3 as amended: in check mode a non-empty not_found bucket still ends the
\* run with exit_json: changed tells whether needs_change is non-empty and
\* 'could not find {names}' is the last clause of the joined message.
C3_DryRunNotFoundIsReported ==
    (check_mode /\ pc = "done" /\ not_found # << >>) =>
        /\ result.kind = "exit_json"
        /\ result.changed = (would_change # << >>)
        /\ result.msg =
             (IF would_change # << >>
              THEN "would update " \o Join(", ", would_change)
              ELSE "all packages already " \o normalized_state(state))
             \o (IF already_present # << >>
                 THEN "; " \o Join(", ", already_present) \o " already "
                           \o normalized_state(state)
                 ELSE "")
             \o "; could not find " \o Join(", ", not_found)

C3_Witness ==
    /\ check_mode /\ pc = "done"
    /\ not_found # << >> /\ would_change # << >>
    /\ result.kind = "exit_json" /\ result.changed

\* C4: outside check mode, when a requested name has no remote metadata the
\* run fails after every requested name was queried and classified, the
\* message names every such name in request order, and neither packer -Syu
\* nor packer -S is started, whatever the other buckets and upgrade are.
C4_NotFoundFailsAfterClassifyingAll ==
    (~check_mode /\ Classified /\ \E k \in 1..Len(name) : ~HasRemote(name[k])) =>
        /\ pc = "done"
        /\ result = fail_json("could not find "
                              \o Join(", ", SelectSeq(name, LAMBDA n : ~HasRemote(n))))
        /\ MutatingCmds = << >>
        /\ Len(would_change) + Len(already_present) + Len(not_found) = Len(name)
        /\ LET si == SelectSeq(cmds, LAMBDA c : c.op = "-Si")
           IN  /\ Len(si) = Len(name)
               /\ \A k \in 1..Len(name) : si[k].name = name[k]

C4_Witness ==
    /\ ~check_mode /\ upgrade /\ pc = "done"
    /\ Len(not_found) >= 2 /\ would_change # << >>
    /\ name[1] \in Range(would_change)
    /\ result.kind = "fail_json"

\* C5: packer -S runs for the needs_change names one after the other in
\* request order; every install before the last one started exited 0; an
\* install that exits non-zero is the last subprocess of the run, which
\* ends with a failure naming that package.
C5_InstallStopsAtFirstFailure ==
    /\ would_change = Requested(would_change)
    /\ Len(Installs) <= Len(would_change)
    /\ \A j \in 1..Len(Installs) : Installs[j].name = would_change[j]
    /\ \A j \in 1..(Len(Installs) - 1) : Installs[j].rc = 0
    /\ \A j \in 1..Len(cmds) :
         (cmds[j].op = "-S" /\ cmds[j].rc # 0) =>
             /\ j = Len(cmds)
             /\ pc = "done"
             /\ result.kind = "fail_json"
             /\ result.msg =
                  "failed to install package " \o cmds[j].name \o ": error"
                    \o (IF login.switched_user THEN ""
                        ELSE " (do you have passwordless sudo as user "
                               \o login.name \o "?)")

C5_Witness ==
    /\ pc = "done" /\ Len(would_change) = 3
    /\ Len(Installs) = 2
    /\ Installs[1].rc = 0 /\ Installs[2].rc # 0
    /\ result.kind = "fail_json"

\* C6: with upgrade outside check mode one packer -Syu runs before every
\* packer -S; when it exits non-zero the run fails and no packer -S is
\* started, also when needs_change is non-empty; when it exits 0 and there
\* is nothing to install the run ends with changed=true and the message
\* 'upgraded AUR packages', and no packer -S is started.
C6_BulkUpgradeFirst ==
    /\ Len(Upgrades) <= 1
    /\ (upgrade /\ ~check_mode) =>
         \A j \in 1..Len(cmds) :
             cmds[j].op = "-S" =>
                 \E k \in 1..(j - 1) : cmds[k].op = "-Syu" /\ cmds[k].rc = 0
    /\ \A j \in 1..Len(cmds) :
         cmds[j].op = "-Syu" =>
             /\ upgrade /\ ~check_mode
             /\ \A k \in 1..(j - 1) : cmds[k].op # "-S"
             /\ cmds[j].rc # 0 =>
                  /\ j = Len(cmds)
                  /\ pc = "done"
                  /\ result = fail_json("failed to upgrade packages: error")
             /\ (cmds[j].rc = 0 /\ would_change = << >>) =>
                  /\ j = Len(cmds)
                  /\ pc = "done"
                  /\ result = exit_json(TRUE, "upgraded AUR packages")

C6_Witness ==
    /\ pc = "done" /\ upgrade /\ ~check_mode
    /\ would_change # << >>
    /\ Len(Upgrades) = 1 /\ Upgrades[1].rc # 0
    /\ Installs = << >>
    /\ result.kind = "fail_json"

\* C7 as claimed: after an invocation outside check mode ended with
\* exit_json, the next invocation with the same parameters starts no
\* mutating subprocess and reports changed=false, whatever state and
\* upgrade are.
C7_SecondRunChangesNothing ==
    (runs >= 1 /\ ~check_mode /\ prev.kind = "exit_json") =>
        /\ MutatingCmds = << >>
        /\ pc = "done" => (result.kind = "exit_json" /\ ~result.changed)

\* C7 as amended: the same holds when upgrade is false, for state present
\* and latest; with upgrade true the next invocation starts packer -Syu
\* again (and nothing else that mutates) and, when that exits 0, reports
\* changed=true.
C7_SecondRunChangesNothingWithoutUpgrade ==
    (runs >= 1 /\ ~check_mode /\ prev.kind = "exit_json") =>
        /\ ~upgrade =>
             /\ MutatingCmds = << >>
             /\ pc = "done" => (result.kind = "exit_json" /\ ~result.changed)
        /\ upgrade =>
             /\ Installs = << >>
             /\ pc = "done" =>
                  /\ Len(Upgrades) = 1
                  /\ Upgrades[1].rc = 0 =>
                       result = exit_json(TRUE, "upgraded AUR packages")

C7_Witness ==
    /\ runs >= 1 /\ ~check_mode /\ ~upgrade /\ pc = "done"
    /\ prev.kind = "exit_json" /\ prev.changed
    /\ state = "latest"
    /\ result.kind = "exit_json" /\ ~result.changed
    /\ Len(already_present) >= 2

\* C8: after check_packages every occurrence of a requested name is in
\* exactly one of the three buckets, each bucket is in request order, a name
\* without remote metadata is in not_found whatever the state and whether or
\* not it is installed, and its installed version is never queried.
C8_BucketsPartitionTheRequest ==
    Classified =>
        /\ Len(would_change) + Len(already_present) + Len(not_found) = Len(name)
        /\ Range(would_change) \cap Range(already_present) = {}
        /\ Range(would_change) \cap Range(not_found) = {}
        /\ Range(already_present) \cap Range(not_found) = {}
        /\ would_change = Requested(would_change)
        /\ already_present = Requested(already_present)
        /\ not_found = Requested(not_found)
        /\ \A k \in 1..Len(name) :
             ~HasRemote(name[k]) => name[k] \in Range(not_found)
        /\ \A j \in 1..Len(cmds) :
             cmds[j].op = "-Q" => HasRemote(cmds[j].name)

C8_Witness ==
    /\ pc = "done" /\ state = "latest"
    /\ Len(name) = 3 /\ name[1] = name[3] /\ name[1] # name[2]
    /\ not_found = << name[1], name[3] >>
    /\ installed[name[1]] # None
    /\ already_present = << name[2] >>


\* the sources of the login name as the claim orders them, Nil for a source
\* that gives nothing
ClaimedSources(e) ==
    << IF e.getlogin = OSError THEN Nil ELSE e.getlogin,
       IF e.logname_path # None /\ e.logname_rc = 0 /\ e.logname_stdout # << >>
       THEN Strip(e.logname_stdout[1]) ELSE Nil,
       e.LOGNAME >>
Usable(u) == u \notin {Nil, << >>, Root}

\* C9 as claimed: the OS login name, the logname command and LOGNAME are
\* tried in this order and the first that gives a non-empty name other than
\* root wins; SUDO_USER is taken exactly when none of the three does, also
\* when the OS login name itself is root.
C9_FirstUsableSourceWins ==
    login_result # Unset =>
        LET src == ClaimedSources(env)
            usable == {k \in 1..3 : Usable(src[k])}
        IN  /\ usable # {} => login_result = src[Min(usable)]
            /\ (usable = {} /\ env.SUDO_USER # Nil) => login_result = env.SUDO_USER

\* C9 as amended: when os.getlogin() succeeds its result is returned as it
\* is, root included, and nothing else is consulted.  Only when it raises
\* OSError: the stripped first line of logname's output is taken when the
\* command is found, exits 0 and prints something, LOGNAME is taken when
\* that gave nothing, and SUDO_USER, when set, replaces the name exactly
\* when the name so far is None or root.
C9_FallbacksOnlyAfterOSError ==
    login_result # Unset =>
        /\ env.getlogin # OSError => login_result = env.getlogin
        /\ env.getlogin = OSError =>
             LET src == ClaimedSources(env)
                 sofar == IF src[2] # Nil THEN src[2] ELSE src[3]
             IN  /\ (sofar \in {Nil, Root} /\ env.SUDO_USER # Nil)
                      => login_result = env.SUDO_USER
                 /\ ~(sofar \in {Nil, Root} /\ env.SUDO_USER # Nil)
                      => login_result = sofar

C9_Witness ==
    /\ env.getlogin = Root /\ env.SUDO_USER = Al
    /\ env.LOGNAME = Bob
    /\ login_result = Root

\* the first place where \s+: can start: a space from which a run of spaces
\* leads to a colon
FirstCuts(line) ==
    {p \in 1..Len(line) :
        /\ IsSpace(line[p])
        /\ \E q \in (p + 1)..Len(line) :
             /\ line[q] = ":"
             /\ \A r \in p..(q - 1) : IsSpace(line[r])}
ColonAfter(line, p) == Min({q \in (p + 1)..Len(line) : line[q] = ":"})
FirstKey(line) == SubSeq(line, 1, Min(FirstCuts(line)) - 1)
FirstValue(line) ==
    SubSeq(line, ColonAfter(line, Min(FirstCuts(line))) + 1, Len(line))

\* C10: for every record (continuation lines joined, blank lines skipped)
\* the key is the text before the first whitespace-colon delimiter, trimmed,
\* lowercased and with its inner whitespace collapsed to underscores, and
\* the value is the text after that delimiter, kept whole.
C10_SplitOnFirstDelimiter ==
    parsed.status = "ok" =>
        LET records == Records(parsed.line_acc)
        IN  /\ Len(parsed.kv_pairs) = Len(records)
            /\ \A j \in 1..Len(records) :
                 parsed.kv_pairs[j] = << NormalKey(FirstKey(records[j])),
                                         Strip(FirstValue(records[j])) >>

====
